---------------------------- MODULE Spec2Model ----------------------------
(***************************************************************************)
(* A model of src/src/index.ts: SQLSchemaInspector (one connection pool    *)
(* per instance, lazily opened; the schema document builder),              *)
(* SQLQueryAssistant (two language-model calls, cleanQuery) and            *)
(* SQLAnalyzer (the pipeline inspectSchema -> generateSQLQuery ->          *)
(* executeQuery -> formatResponse).                                        *)
(*                                                                         *)
(* One instance of SQLAnalyzer with its inspector is modelled.  Callers    *)
(* are processes; every async function suspends at each of its awaits,     *)
(* and the code between two awaits runs as one step (JavaScript runs       *)
(* a continuation to its next await without interruption).  A call made by *)
(* a continuation runs, in the same step, up to the callee's first await.  *)
(*                                                                         *)
(* Text is a sequence of tokens; "\n" is a token of its own, so lines are  *)
(* what lies between two "\n".  The text a language model returns is a     *)
(* sequence of characters, because cleanQuery works on characters.         *)
(*                                                                         *)
(* The driver's pool.close() is taken to resolve; connection opening,      *)
(* every query and every language-model call resolve or reject, and reject *)
(* with an Error or with a value that is not an Error.                     *)
(***************************************************************************)
EXTENDS Integers, Sequences, FiniteSets, TLC

(* ------------------------------ bounds -------------------------------- *)

\* Top-level calls made on the instance in one behaviour.
MaxCalls == 3

\* Rows the catalog queries of one inspectSchema call return, all together,
\* in the document-building specification (SpecDoc).
MaxRows == 4

\* The same, in the single-caller specification (SpecSeq).
SeqRows == 2

\* Rows the table-enumeration query returns.
MaxTables == 2

\* Characters of a text the language model fences (SpecAssistant).
MaxLen == 3

\* Catalog rows one call may receive in the runs that check termination:
\* the rows of the table enumeration decide the turns of the loop, those of
\* a per-table result only what is rendered.
LiveRows == 2

(* ------------------------------ values -------------------------------- *)

\* this.pool = null
NULL == 0

\* A string field of a catalog row that is SQL NULL (JavaScript null).
NullText == "<null>"

\* JavaScript truthiness of a string | null field.
Truthy(s) == s # NullText /\ s # ""

Procs == {"a", "b"}

TableNames == {"T1", "T2"}
ColumnNames == {"c1", "c2"}
IndexNames == {"ix1", "ix2"}

\* Rows of the table-enumeration query (TableMetadata).
TableRowSet ==
  { [TABLE_NAME |-> "T1", TABLE_DESCRIPTION |-> NullText],
    [TABLE_NAME |-> "T1", TABLE_DESCRIPTION |-> "td"],
    [TABLE_NAME |-> "T2", TABLE_DESCRIPTION |-> NullText],
    [TABLE_NAME |-> "T2", TABLE_DESCRIPTION |-> ""] }

\* Rows of the columns query (ColumnMetadata).
ColumnRowSet ==
  { [COLUMN_NAME |-> "c1", DATA_TYPE |-> "int", IS_NULLABLE |-> "NO",
     COLUMN_DEFAULT |-> NullText, COLUMN_DESCRIPTION |-> NullText],
    [COLUMN_NAME |-> "c2", DATA_TYPE |-> "varchar", IS_NULLABLE |-> "YES",
     COLUMN_DEFAULT |-> "'UA'", COLUMN_DESCRIPTION |-> ""],
    [COLUMN_NAME |-> "c2", DATA_TYPE |-> "varchar", IS_NULLABLE |-> "NO",
     COLUMN_DEFAULT |-> "'UA'", COLUMN_DESCRIPTION |-> "cd"] }

\* Rows of the primary-key query.
PkRowSet == [COLUMN_NAME : {"c1"}]

\* Rows of the foreign-key query.
FkRowSet == [COLUMN_NAME : {"c2"}, REFERENCED_TABLE_NAME : {"T2"},
             REFERENCED_COLUMN_NAME : {"c1"}]

\* Rows of the index query: one row per (index, key column).
IndexRowSet == [INDEX_NAME : IndexNames, COLUMN_NAME : ColumnNames,
                is_unique : BOOLEAN]

\* Rows a generated or caller-given statement returns (SQLQueryResult[]).
ResultRowSet == {<<>>, <<[v |-> "1"]>>}

\* The sequences of at most n elements of S.
SeqsUpTo(S, n) == UNION {[1..k -> S] : k \in 0..n}

\* sys.indexes has one is_unique per index, and an index name is unique
\* within a table: the rows of one index name carry the same flag.
FlagsConsistent(rows) ==
  \A i, j \in 1..Len(rows) :
    rows[i].INDEX_NAME = rows[j].INDEX_NAME => rows[i].is_unique = rows[j].is_unique

\* What a query of the given kind may return in environment e, when at most
\* n rows are left of the call's row budget.
RowsFor(kind, n, e) ==
  CASE kind = "tables"  -> {r \in e.catalogs : Len(r) <= n}
    [] kind = "columns" -> SeqsUpTo(ColumnRowSet, n)
    [] kind = "pks"     -> SeqsUpTo(PkRowSet, n)
    [] kind = "fks"     -> SeqsUpTo(FkRowSet, n)
    [] kind = "indexes" -> {r \in SeqsUpTo(IndexRowSet, n) : FlagsConsistent(r)}
    [] OTHER            -> ResultRowSet

CatalogKinds == {"tables", "columns", "pks", "fks", "indexes"}

(* ------------------------------- text --------------------------------- *)

RECURSIVE Concat(_)
\* The concatenation of a sequence of texts.
Concat(ss) == IF ss = <<>> THEN <<>> ELSE Head(ss) \o Concat(Tail(ss))

RECURSIVE Join(_, _)
\* Array.prototype.join: the texts of ss with sep between them.
Join(ss, sep) ==
  IF ss = <<>> THEN <<>>
  ELSE IF Len(ss) = 1 THEN <<ss[1]>>
  ELSE <<ss[1], sep>> \o Join(Tail(ss), sep)

\* Whether text t occurs in text m as a contiguous run of tokens.
Contains(m, t) ==
  \E i \in 0..(Len(m) - Len(t)) : \A k \in 1..Len(t) : m[i + k] = t[k]

StartsWith(s, pre) ==
  /\ Len(s) >= Len(pre)
  /\ \A k \in 1..Len(pre) : s[k] = pre[k]

Drop(s, n) == SubSeq(s, n + 1, Len(s))

(* ------------------------ SQLQueryAssistant --------------------------- *)

IsSpace(c) == c \in {" ", "\n", "\t", "\r"}

\* The backquote character.
BQ == "bq"

\* Three backquotes: a code fence.
Fence == <<BQ, BQ, BQ>>
FenceSql == Fence \o <<"s", "q", "l">>

RECURSIVE ReplaceFenceSql(_)
\* .replace(/<fence>sql\n?/g, "")
ReplaceFenceSql(s) ==
  IF s = <<>> THEN <<>>
  ELSE IF StartsWith(s, FenceSql)
       THEN LET r == Drop(s, Len(FenceSql))
            IN  ReplaceFenceSql(IF r # <<>> /\ Head(r) = "\n" THEN Tail(r) ELSE r)
       ELSE <<Head(s)>> \o ReplaceFenceSql(Tail(s))

\* ReplaceFence without the g flag: the first fence only.
ReplaceFenceFirst(s) ==
  IF \E i \in 0..(Len(s) - 3) : SubSeq(s, i + 1, i + 3) = Fence
  THEN LET i == CHOOSE i \in 0..(Len(s) - 3) :
                  /\ SubSeq(s, i + 1, i + 3) = Fence
                  /\ \A j \in 0..(i - 1) : SubSeq(s, j + 1, j + 3) # Fence
       IN  SubSeq(s, 1, i) \o SubSeq(s, i + 4, Len(s))
  ELSE s

RECURSIVE ReplaceFence(_)
\* .replace(/<fence>/g, "")
ReplaceFence(s) ==
  IF s = <<>> THEN <<>>
  ELSE IF StartsWith(s, Fence) THEN ReplaceFence(Drop(s, Len(Fence)))
       ELSE <<Head(s)>> \o ReplaceFence(Tail(s))

RECURSIVE TrimLeft(_)
TrimLeft(s) == IF s # <<>> /\ IsSpace(Head(s)) THEN TrimLeft(Tail(s)) ELSE s

RECURSIVE TrimRight(_)
TrimRight(s) ==
  IF s # <<>> /\ IsSpace(s[Len(s)]) THEN TrimRight(SubSeq(s, 1, Len(s) - 1)) ELSE s

\* .replace(/^\s+|\s+$/g, "")
Trim(s) == TrimRight(TrimLeft(s))

cleanQuery(query) == Trim(ReplaceFence(ReplaceFenceSql(query)))

\* message.content of a completion: a string or null.
NullContent == [isNull |-> TRUE, chars |-> <<>>]
Content(chars) == [isNull |-> FALSE, chars |-> chars]

\* content || ""
ContentOrEmpty(c) == IF c.isNull THEN <<>> ELSE c.chars

\* What the language model may answer to the request of generateSQLQuery: no
\* completion at all, a completion without content, or a text.
GenerateResponses ==
  { [choices |-> <<>>],
    [choices |-> <<[content |-> NullContent]>>],
    [choices |-> <<[content |-> Content(<<"S">>)]>>],
    [choices |-> <<[content |-> Content(FenceSql \o <<"\n", "S", "\n">> \o Fence)]>>] }

\* The characters of the texts the model fences.
Chars == {BQ, "s", "q", "l", "\n", "X"}

\* How the model fences a text: the opening fence without tag, with the
\* tag sql or with the tag SQL; a line break after the opening fence or
\* none; a line break before the closing fence or none.
FenceStyles == [tag : {"none", "sql", "SQL"}, openNl : BOOLEAN, closeNl : BOOLEAN]

\* The characters of a tag.
TagChars(tag) ==
  CASE tag = "sql" -> <<"s", "q", "l">>
    [] tag = "SQL" -> <<"S", "Q", "L">>
    [] OTHER       -> <<>>

\* The text c as the model returns it fenced in the given style.
Fenced(style, c) ==
  Fence \o TagChars(style.tag)
        \o (IF style.openNl THEN <<"\n">> ELSE <<>>)
        \o c
        \o (IF style.closeNl THEN <<"\n">> ELSE <<>>)
        \o Fence

\* What it may answer to the request of formatResponse.
FormatResponses ==
  { [choices |-> <<>>],
    [choices |-> <<[content |-> NullContent]>>],
    [choices |-> <<[content |-> Content(<<>>)]>>],
    [choices |-> <<[content |-> Content(<<"A", " ">>)]>>] }

(* ------------------------- thrown values ------------------------------ *)

\* A thrown value: an Error (isError) with its message, or any other value
\* with the text it carries.
Err(msg) == [isError |-> TRUE, message |-> msg]

\* What an external call that fails may throw in environment e.
FailuresOf(site, e) == {[isError |-> b, message |-> <<"boom: ", site>>] : b \in e.errors}

\* this.pool!.request() with this.pool null
NullPoolError == Err(<<"Cannot read properties of null (reading 'request')">>)

\* response.choices[0].message with no completion
NoChoiceError == Err(<<"Cannot read properties of undefined (reading 'message')">>)

NoConnectionError == Err(<<"Failed to establish database connection">>)

\* MessageOf with the caught value's message dropped.
MessageOfLost(v) == <<"Unknown error">>

\* err instanceof Error ? err.message : "Unknown error"
MessageOf(v) == IF v.isError THEN v.message ELSE <<"Unknown error">>

\* throw new Error(prefix + message of the caught value)
Wrap(prefix, v) == Err(<<prefix>> \o MessageOf(v))

ConnectPrefix == "Failed to connect to database: "
InspectPrefix == "Failed to inspect database schema: "
AnalyzePrefix == "Failed to analyze and query: "

(* ---------------------- the schema document --------------------------- *)

Title == <<"Database Schema:", "\n", "=================", "\n", "\n">>

\* RenderHeader with the description line written for every table.
RenderHeaderAlways(table) ==
  <<"Table: ", table.TABLE_NAME, "\n">>
  \o <<"Description: ", table.TABLE_DESCRIPTION, "\n">>
  \o <<"----------------------------------------", "\n">>
  \o <<"Columns:", "\n">>

\* Table header, description if any, separator and the "Columns:" line.
RenderHeader(table) ==
  <<"Table: ", table.TABLE_NAME, "\n">>
  \o (IF Truthy(table.TABLE_DESCRIPTION)
      THEN <<"Description: ", table.TABLE_DESCRIPTION, "\n">> ELSE <<>>)
  \o <<"----------------------------------------", "\n">>
  \o <<"Columns:", "\n">>

\* The properties array of one column: a sequence of texts.
ColumnProperties(column) ==
  (IF column.IS_NULLABLE = "NO" THEN << <<"NOT NULL">> >> ELSE <<>>)
  \o (IF column.COLUMN_DEFAULT # NullText
      THEN << <<"DEFAULT: ", column.COLUMN_DEFAULT>> >> ELSE <<>>)

RenderColumn(column) ==
  <<"- ", column.COLUMN_NAME, " (", column.DATA_TYPE, ")">>
  \o (IF Len(ColumnProperties(column)) > 0
      THEN <<" [">> \o Concat(Join(ColumnProperties(column), <<", ">>)) \o <<"]">>
      ELSE <<>>)
  \o (IF Truthy(column.COLUMN_DESCRIPTION)
      THEN <<"\n", "  ", "Description: ", column.COLUMN_DESCRIPTION>> ELSE <<>>)
  \o <<"\n">>

RECURSIVE RenderColumns(_)
RenderColumns(columns) ==
  IF columns = <<>> THEN <<>>
  ELSE RenderColumn(Head(columns)) \o RenderColumns(Tail(columns))

RECURSIVE RenderPkLines(_)
RenderPkLines(rows) ==
  IF rows = <<>> THEN <<>>
  ELSE <<"- ", Head(rows).COLUMN_NAME, "\n">> \o RenderPkLines(Tail(rows))

RenderPrimaryKeys(primaryKeys) ==
  IF Len(primaryKeys) > 0
  THEN <<"\n", "Primary Keys:", "\n">> \o RenderPkLines(primaryKeys)
  ELSE <<>>

RECURSIVE RenderFkLines(_)
RenderFkLines(rows) ==
  IF rows = <<>> THEN <<>>
  ELSE <<"- ", Head(rows).COLUMN_NAME, " -> ", Head(rows).REFERENCED_TABLE_NAME,
         "(", Head(rows).REFERENCED_COLUMN_NAME, ")", "\n">>
       \o RenderFkLines(Tail(rows))

RenderForeignKeys(foreignKeys) ==
  IF Len(foreignKeys) > 0
  THEN <<"\n", "Foreign Keys:", "\n">> \o RenderFkLines(foreignKeys)
  ELSE <<>>

\* uniqueIndexes.has(name): the Map is a sequence of entries in insertion
\* order, at most one per name.
MapHas(map, name) == \E i \in 1..Len(map) : map[i].name = name

\* AddIndexRow with the column put in front of those already there.
AddIndexRowFront(map, index) ==
  LET m == IF MapHas(map, index.INDEX_NAME) THEN map
           ELSE Append(map, [name |-> index.INDEX_NAME, columns |-> <<>>,
                             isUnique |-> index.is_unique])
  IN  [i \in 1..Len(m) |->
         IF m[i].name = index.INDEX_NAME
         THEN [m[i] EXCEPT !.columns = <<index.COLUMN_NAME>> \o @]
         ELSE m[i]]

\* The step of indexes.forEach for one row: set() on a new name, then push.
AddIndexRow(map, index) ==
  LET m == IF MapHas(map, index.INDEX_NAME) THEN map
           ELSE Append(map, [name |-> index.INDEX_NAME, columns |-> <<>>,
                             isUnique |-> index.is_unique])
  IN  [i \in 1..Len(m) |->
         IF m[i].name = index.INDEX_NAME
         THEN [m[i] EXCEPT !.columns = Append(@, index.COLUMN_NAME)]
         ELSE m[i]]

RECURSIVE GroupIndexes(_, _)
\* indexes.forEach(...) from the Map built so far.
GroupIndexes(map, rows) ==
  IF rows = <<>> THEN map
  ELSE GroupIndexes(AddIndexRow(map, Head(rows)), Tail(rows))

RenderIndexEntry(e) ==
  <<"- ", e.name>> \o (IF e.isUnique THEN <<" (UNIQUE)">> ELSE <<>>)
  \o <<": ">> \o Join(e.columns, ", ") \o <<"\n">>

RECURSIVE RenderIndexEntries(_)
RenderIndexEntries(map) ==
  IF map = <<>> THEN <<>>
  ELSE RenderIndexEntry(Head(map)) \o RenderIndexEntries(Tail(map))

RenderIndexes(indexes) ==
  IF Len(indexes) > 0
  THEN <<"\n", "Indexes:", "\n">> \o RenderIndexEntries(GroupIndexes(<<>>, indexes))
  ELSE <<>>

SectionEnd == <<"\n", "\n">>


(* ------------------------------ state --------------------------------- *)

VARIABLES
  pool,        \* SQLSchemaInspector.pool: NULL or the handle stored
  handles,     \* handles[h]: "open", "closing" or "closed", for every handle
               \* the driver has opened (h = 1..Len(handles))
  closeCalls,  \* closeCalls[h]: how many times close() was called on h
  proc,        \* proc[p]: the call process p has in flight, if any
  calls,       \* top-level calls made so far
  callers,     \* callers[p]: the operations process p calls
  env          \* the environment, fixed: catalogs (what the table
               \* enumeration may return), rowCap (the catalog rows one
               \* inspectSchema call may be handed), errors (whether a
               \* failing external call throws an Error, another value),
               \* contents (the texts the language model may fence)

vars == <<pool, handles, closeCalls, proc, calls, callers, env>>

Frame(fn, at) == [fn |-> fn, at |-> at]

NoQuery == [kind |-> "none", text |-> <<>>]
NoRes == [tag |-> "none", val |-> <<>>]
NoOutcome == [status |-> "none", op |-> "idle", val |-> <<>>]

\* A process with no call in flight and nothing remembered.
IdleProc ==
  [ op |-> "idle",       \* the top-level call in flight
    stack |-> <<>>,      \* its frames, innermost last, each at an await
    wait |-> "none",     \* what the innermost frame waits for: "io" (an
                         \* external call), or its callee has settled:
                         \* "ret" / "thrown", with the value in res
    res |-> NoRes,
    q |-> NoQuery,       \* executeQuery's argument
    closing |-> NULL,    \* the handle disconnect called close() on
    tables |-> <<>>,     \* inspectSchema: tables, the loop index, schema
    ti |-> 0,
    schema |-> <<>>,
    squery |-> <<>>,     \* analyzeAndQuery: query
    budget |-> 0,        \* catalog rows the environment may still return
    \* history of the call, kept until the process calls again
    stages |-> <<>>,     \* the stages analyzeAndQuery entered
    issued |-> <<>>,     \* the queries issued: kind, text (of a catalog
                         \* query), handle, handle state
    log |-> <<>>,        \* the catalog query results: kind, rows
    cause |-> <<>>,      \* the first value thrown, if any: the value, the
                         \* call that threw it, the stage and the number
                         \* of queries issued by then
    opens |-> 0,         \* driver connect() calls started
    had |-> NULL,        \* this.pool when the call was made
    reply |-> <<>>,      \* a call of the assistant alone: the completion
                         \* it was given and, if that was a fenced text,
                         \* the text and the style
    outcome |-> NoOutcome,
    prev |-> [op |-> "idle", status |-> "none"] ]  \* the call before

Top(s) == s.stack[Len(s.stack)]
Pop(s) == [s EXCEPT !.stack = SubSeq(@, 1, Len(@) - 1)]
Push(s, f) == [s EXCEPT !.stack = Append(@, f)]
At(s, at) == [s EXCEPT !.stack[Len(s.stack)].at = at]

\* The top-level promise settles: the call is over.
Settle(s, tag, val) ==
  [s EXCEPT !.op = "idle", !.stack = <<>>, !.wait = "none", !.res = NoRes,
            !.q = NoQuery, !.closing = NULL, !.tables = <<>>, !.ti = 0,
            !.schema = <<>>, !.squery = <<>>, !.budget = 0,
            !.outcome = [status |-> IF tag = "thrown" THEN "rejected" ELSE "resolved",
                         op |-> s.op, val |-> val]]

\* A frame has just been popped having returned (tag "ret") or thrown
\* (tag "thrown") val: the frame below is awaiting it and will resume.
Deliver(s, tag, val) ==
  IF s.stack = <<>> THEN Settle(s, tag, val)
  ELSE [s EXCEPT !.wait = tag, !.res = [tag |-> tag, val |-> val]]

\* Remember the first value thrown in this call.
Thrown(s, v, site) ==
  IF s.cause = <<>>
  THEN [s EXCEPT !.cause = <<[value |-> v, site |-> site,
                              stage |-> IF s.stages = <<>> THEN "none"
                                        ELSE s.stages[Len(s.stages)],
                              nIssued |-> Len(s.issued)]>>]
  ELSE s

Resumes(p, fn, at) ==
  /\ proc[p].op # "idle"
  /\ Top(proc[p]) = Frame(fn, at)
  /\ proc[p].wait \in {"ret", "thrown"}

AwaitsIo(p, fn, at) ==
  /\ proc[p].op # "idle"
  /\ Top(proc[p]) = Frame(fn, at)
  /\ proc[p].wait = "io"

(* ------------------ SQLSchemaInspector.connect ------------------------ *)

\* EnterConnect without the test of this.pool: a pool is opened on every call.
EnterConnectAlways(s, pl) ==
  [Push(s, Frame("connect", "open")) EXCEPT !.wait = "io", !.opens = @ + 1]

\* connect() up to its await: with no pool it starts opening one, else it
\* returns at once and its caller awaits the resolved promise.
EnterConnect(s, pl) ==
  IF pl = NULL
  THEN [Push(s, Frame("connect", "open")) EXCEPT !.wait = "io", !.opens = @ + 1]
  ELSE Deliver(s, "ret", <<>>)

\* The pool stored when the driver's connect() resolves with handle h.
ConnectStore(pl, h) == h

\* ConnectResume with the pool object stored before its connect() settles:
\* a failed attempt leaves a handle behind.
ConnectResumeLeak(p) ==
  /\ AwaitsIo(p, "connect", "open")
  /\ handles' = Append(handles, "open")
  /\ closeCalls' = Append(closeCalls, 0)
  /\ pool' = Len(handles) + 1
  /\ \/ proc' = [proc EXCEPT ![p] = Deliver(Pop(@), "ret", <<>>)]
     \/ \E v \in FailuresOf("connect", env) :
          proc' = [proc EXCEPT ![p] =
                     Deliver(Pop(Thrown(@, v, "connect")), "thrown", Wrap(ConnectPrefix, v))]
  /\ UNCHANGED <<calls, callers, env>>

\* The driver's connect() resolves (the handle is stored) or rejects.
ConnectResume(p) ==
  /\ AwaitsIo(p, "connect", "open")
  /\ \/ /\ handles' = Append(handles, "open")
        /\ closeCalls' = Append(closeCalls, 0)
        /\ pool' = ConnectStore(pool, Len(handles) + 1)
        /\ proc' = [proc EXCEPT ![p] = Deliver(Pop(@), "ret", <<>>)]
     \/ \E v \in FailuresOf("connect", env) :
          /\ proc' = [proc EXCEPT ![p] =
                        Deliver(Pop(Thrown(@, v, "connect")), "thrown", Wrap(ConnectPrefix, v))]
          /\ UNCHANGED <<pool, handles, closeCalls>>
  /\ UNCHANGED <<calls, callers, env>>

(* ----------------- SQLSchemaInspector.disconnect ---------------------- *)

\* Whether disconnect() has a pool to close.
DisconnectFinds(pl) == pl # NULL

\* DisconnectResume without this.pool = null.
DisconnectResumeKeep(p) ==
  /\ AwaitsIo(p, "disconnect", "close")
  /\ handles' = [handles EXCEPT ![proc[p].closing] = "closed"]
  /\ proc' = [proc EXCEPT ![p] = Deliver(Pop(@), "ret", <<>>)]
  /\ UNCHANGED <<pool, closeCalls, calls, callers, env>>

\* pool.close() has resolved: this.pool = null.
DisconnectResume(p) ==
  /\ AwaitsIo(p, "disconnect", "close")
  /\ handles' = [handles EXCEPT ![proc[p].closing] = "closed"]
  /\ pool' = NULL
  /\ proc' = [proc EXCEPT ![p] = Deliver(Pop(@), "ret", <<>>)]
  /\ UNCHANGED <<closeCalls, calls, callers, env>>

(* ---------------- SQLSchemaInspector.executeQuery --------------------- *)

\* this.pool!.request().query(query): the query goes out on pool pl.
Issue(s, pl, hs) ==
  [s EXCEPT !.wait = "io",
            !.issued = Append(@, [kind |-> s.q.kind,
                                  text |-> IF s.q.kind \in CatalogKinds
                                           THEN s.q.text ELSE <<>>,
                                  handle |-> pl, hstate |-> hs[pl]])]

\* executeQuery(q) up to its first await: await this.connect() if there is
\* no pool, else the query itself.
EnterExecuteQuery(s, pl, hs, q) ==
  IF pl = NULL
  THEN EnterConnect([Push(s, Frame("executeQuery", "connect")) EXCEPT !.q = q], pl)
  ELSE Issue([Push(s, Frame("executeQuery", "query")) EXCEPT !.q = q], pl, hs)

\* After await this.connect(): the query is issued on whatever this.pool
\* holds now.
ExecuteQueryAfterConnect(p) ==
  /\ Resumes(p, "executeQuery", "connect")
  /\ proc' = [proc EXCEPT ![p] =
       IF @.wait = "thrown" THEN Deliver(Pop(@), "thrown", @.res.val)
       ELSE IF pool = NULL
            THEN Deliver(Pop(Thrown(@, NullPoolError, "pool")), "thrown", NullPoolError)
            ELSE Issue(At(@, "query"), pool, handles)]
  /\ UNCHANGED <<pool, handles, closeCalls, calls, callers, env>>

\* The query resolves with its recordset or rejects.
ExecuteQueryResume(p) ==
  /\ AwaitsIo(p, "executeQuery", "query")
  /\ \/ \E rows \in RowsFor(proc[p].q.kind, proc[p].budget, env) :
          proc' = [proc EXCEPT ![p] =
            Deliver(Pop(IF @.q.kind \in CatalogKinds
                        THEN [@ EXCEPT !.budget = @ - Len(rows),
                                       !.log = Append(@, [kind |-> proc[p].q.kind,
                                                          rows |-> rows])]
                        ELSE @),
                    "ret", rows)]
     \/ \E v \in FailuresOf(proc[p].q.kind, env) :
          proc' = [proc EXCEPT ![p] =
                     Deliver(Pop(Thrown(@, v, proc[p].q.kind)), "thrown", v)]
  /\ UNCHANGED <<pool, handles, closeCalls, calls, callers, env>>


(* ---------------- SQLSchemaInspector.inspectSchema -------------------- *)

TablesQuery == [kind |-> "tables", text |-> <<"tables">>]
ColumnsQuery(tableName) == [kind |-> "columns", text |-> <<"columns of ", tableName>>]
PksQuery(tableName) == [kind |-> "pks", text |-> <<"primary keys of ", tableName>>]
FksQuery(tableName) == [kind |-> "fks", text |-> <<"foreign keys of ", tableName>>]
IndexesQuery(tableName) == [kind |-> "indexes", text |-> <<"indexes of ", tableName>>]

\* inspectSchema() up to its first await: await this.connect().
EnterInspectSchema(s, pl) ==
  EnterConnect(Push(s, Frame("inspectSchema", "connect")), pl)

\* The catch block: the call rejects with the wrapped error.
InspectCatch(s, v) == Deliver(Pop(s), "thrown", Wrap(InspectPrefix, v))

\* inspectSchema awaits executeQuery(q) at await site at.
InspectQuery(s, at, q) == EnterExecuteQuery(At(s, at), pool, handles, q)

\* InspectLoop with the end of a section written once more before the
\* document is returned.
InspectLoopPadded(s) ==
  IF s.ti > Len(s.tables) THEN Deliver(Pop(s), "ret", s.schema \o SectionEnd)
  ELSE InspectQuery(s, "columns", ColumnsQuery(s.tables[s.ti].TABLE_NAME))

\* The head of for (const table of tables): the next table's columns
\* query, or return schema.
InspectLoop(s) ==
  IF s.ti > Len(s.tables) THEN Deliver(Pop(s), "ret", s.schema)
  ELSE InspectQuery(s, "columns", ColumnsQuery(s.tables[s.ti].TABLE_NAME))

\* The table the loop is at.
CurrentTable(s) == s.tables[s.ti]

InspectAfterConnect(p) ==
  /\ Resumes(p, "inspectSchema", "connect")
  /\ proc' = [proc EXCEPT ![p] =
       IF @.wait = "thrown" THEN InspectCatch(@, @.res.val)
       ELSE IF pool = NULL
            THEN InspectCatch(Thrown(@, NoConnectionError, "pool"), NoConnectionError)
            ELSE InspectQuery(@, "tables", TablesQuery)]
  /\ UNCHANGED <<pool, handles, closeCalls, calls, callers, env>>

\* InspectAfterTables with the tables taken last first.
InspectAfterTablesReversed(p) ==
  /\ Resumes(p, "inspectSchema", "tables")
  /\ proc' = [proc EXCEPT ![p] =
       IF @.wait = "thrown" THEN InspectCatch(@, @.res.val)
       ELSE LET rows == proc[p].res.val IN
            InspectLoop([@ EXCEPT !.tables = [i \in 1..Len(rows) |-> rows[Len(rows) + 1 - i]],
                                  !.ti = 1, !.schema = Title])]
  /\ UNCHANGED <<pool, handles, closeCalls, calls, callers, env>>

InspectAfterTables(p) ==
  /\ Resumes(p, "inspectSchema", "tables")
  /\ proc' = [proc EXCEPT ![p] =
       IF @.wait = "thrown" THEN InspectCatch(@, @.res.val)
       ELSE InspectLoop([@ EXCEPT !.tables = proc[p].res.val, !.ti = 1,
                                  !.schema = Title])]
  /\ UNCHANGED <<pool, handles, closeCalls, calls, callers, env>>

InspectAfterColumns(p) ==
  /\ Resumes(p, "inspectSchema", "columns")
  /\ proc' = [proc EXCEPT ![p] =
       IF @.wait = "thrown" THEN InspectCatch(@, @.res.val)
       ELSE InspectQuery(
              [@ EXCEPT !.schema = @ \o RenderHeader(CurrentTable(proc[p]))
                                     \o RenderColumns(proc[p].res.val)],
              "pks", PksQuery(CurrentTable(@).TABLE_NAME))]
  /\ UNCHANGED <<pool, handles, closeCalls, calls, callers, env>>

\* InspectAfterPks with a failed primary-key query taken for no rows.
InspectAfterPksContinue(p) ==
  /\ Resumes(p, "inspectSchema", "pks")
  /\ proc' = [proc EXCEPT ![p] =
       InspectQuery(
         [@ EXCEPT !.schema = @ \o (IF proc[p].wait = "thrown" THEN <<>>
                                    ELSE RenderPrimaryKeys(proc[p].res.val))],
         "fks", FksQuery(CurrentTable(@).TABLE_NAME))]
  /\ UNCHANGED <<pool, handles, closeCalls, calls, callers, env>>

InspectAfterPks(p) ==
  /\ Resumes(p, "inspectSchema", "pks")
  /\ proc' = [proc EXCEPT ![p] =
       IF @.wait = "thrown" THEN InspectCatch(@, @.res.val)
       ELSE InspectQuery(
              [@ EXCEPT !.schema = @ \o RenderPrimaryKeys(proc[p].res.val)],
              "fks", FksQuery(CurrentTable(@).TABLE_NAME))]
  /\ UNCHANGED <<pool, handles, closeCalls, calls, callers, env>>

\* InspectAfterFks without the index query: on to the next table.
InspectAfterFksSkip(p) ==
  /\ Resumes(p, "inspectSchema", "fks")
  /\ proc' = [proc EXCEPT ![p] =
       IF @.wait = "thrown" THEN InspectCatch(@, @.res.val)
       ELSE InspectLoop(
              [@ EXCEPT !.schema = @ \o RenderForeignKeys(proc[p].res.val) \o SectionEnd,
                        !.ti = @ + 1])]
  /\ UNCHANGED <<pool, handles, closeCalls, calls, callers, env>>

InspectAfterFks(p) ==
  /\ Resumes(p, "inspectSchema", "fks")
  /\ proc' = [proc EXCEPT ![p] =
       IF @.wait = "thrown" THEN InspectCatch(@, @.res.val)
       ELSE InspectQuery(
              [@ EXCEPT !.schema = @ \o RenderForeignKeys(proc[p].res.val)],
              "indexes", IndexesQuery(CurrentTable(@).TABLE_NAME))]
  /\ UNCHANGED <<pool, handles, closeCalls, calls, callers, env>>

InspectAfterIndexes(p) ==
  /\ Resumes(p, "inspectSchema", "indexes")
  /\ proc' = [proc EXCEPT ![p] =
       IF @.wait = "thrown" THEN InspectCatch(@, @.res.val)
       ELSE InspectLoop(
              [@ EXCEPT !.schema = @ \o RenderIndexes(proc[p].res.val) \o SectionEnd,
                        !.ti = @ + 1])]
  /\ UNCHANGED <<pool, handles, closeCalls, calls, callers, env>>

(* ------------------------ SQLQueryAssistant --------------------------- *)

AssistantOps == {"generateSQLQuery", "formatResponse"}

\* The completion a call of the assistant alone was given.
Heard(s, response, fenced) ==
  IF s.op \in AssistantOps
  THEN [s EXCEPT !.reply = <<[response |-> response, fenced |-> fenced]>>]
  ELSE s

\* generateSQLQuery's value for a response of the model.
GenerateResult(response) == cleanQuery(ContentOrEmpty(response.choices[1].content))

\* formatResponse's value for a response of the model.
FormatResult(response) == ContentOrEmpty(response.choices[1].content)

\* The completion request of generateSQLQuery resolves or rejects.
GenerateResume(p) ==
  /\ AwaitsIo(p, "generateSQLQuery", "create")
  /\ \/ \E response \in GenerateResponses :
          proc' = [proc EXCEPT ![p] =
            IF response.choices = <<>>
            THEN Deliver(Pop(Thrown(Heard(@, response, <<>>), NoChoiceError, "choices")),
                         "thrown", NoChoiceError)
            ELSE Deliver(Pop(Heard(@, response, <<>>)), "ret", GenerateResult(response))]
     \/ \E c \in env.contents, style \in FenceStyles :
          LET response == [choices |-> <<[content |-> Content(Fenced(style, c))]>>] IN
          proc' = [proc EXCEPT ![p] =
            Deliver(Pop(Heard(@, response, <<[content |-> c, style |-> style]>>)),
                    "ret", GenerateResult(response))]
     \/ \E v \in FailuresOf("generate", env) :
          proc' = [proc EXCEPT ![p] = Deliver(Pop(Thrown(@, v, "generate")), "thrown", v)]
  /\ UNCHANGED <<pool, handles, closeCalls, calls, callers, env>>

\* The completion request of formatResponse resolves or rejects.
FormatResume(p) ==
  /\ AwaitsIo(p, "formatResponse", "create")
  /\ \/ \E response \in FormatResponses :
          proc' = [proc EXCEPT ![p] =
            IF response.choices = <<>>
            THEN Deliver(Pop(Thrown(Heard(@, response, <<>>), NoChoiceError, "choices")),
                         "thrown", NoChoiceError)
            ELSE Deliver(Pop(Heard(@, response, <<>>)), "ret", FormatResult(response))]
     \/ \E v \in FailuresOf("format", env) :
          proc' = [proc EXCEPT ![p] = Deliver(Pop(Thrown(@, v, "format")), "thrown", v)]
  /\ UNCHANGED <<pool, handles, closeCalls, calls, callers, env>>

(* ----------------- SQLAnalyzer.analyzeAndQuery ------------------------ *)

\* The catch block: the call rejects with the wrapped error.
AnalyzeCatch(s, v) == Deliver(Pop(s), "thrown", Wrap(AnalyzePrefix, v))

\* analyzeAndQuery enters a stage.
Stage(s, name) == [s EXCEPT !.stages = Append(@, name)]

\* A language-model request goes out from fn.
EnterAssistant(s, fn) == [Push(s, Frame(fn, "create")) EXCEPT !.wait = "io"]

\* AnalyzeAfterInspect awaiting, after inspectSchema, a promise that is
\* never settled.
AnalyzeAfterInspectHang(p) ==
  /\ Resumes(p, "analyzeAndQuery", "inspectSchema")
  /\ proc' = [proc EXCEPT ![p] = [@ EXCEPT !.wait = "io"]]
  /\ UNCHANGED <<pool, handles, closeCalls, calls, callers, env>>

AnalyzeAfterInspect(p) ==
  /\ Resumes(p, "analyzeAndQuery", "inspectSchema")
  /\ proc' = [proc EXCEPT ![p] =
       IF @.wait = "thrown" THEN AnalyzeCatch(@, @.res.val)
       ELSE EnterAssistant(Stage(At(@, "generateSQLQuery"), "GENERATE"),
                           "generateSQLQuery")]
  /\ UNCHANGED <<pool, handles, closeCalls, calls, callers, env>>

\* AnalyzeAfterGenerate with the pool closed and cleared when
\* generateSQLQuery has failed.
AnalyzeAfterGenerateRelease(p) ==
  /\ Resumes(p, "analyzeAndQuery", "generateSQLQuery")
  /\ proc' = [proc EXCEPT ![p] =
       IF @.wait = "thrown" THEN AnalyzeCatch(@, @.res.val)
       ELSE EnterExecuteQuery(
              Stage([At(@, "executeQuery") EXCEPT !.squery = proc[p].res.val], "EXECUTE"),
              pool, handles, [kind |-> "generated", text |-> proc[p].res.val])]
  /\ IF proc[p].wait = "thrown" /\ pool # NULL
     THEN /\ pool' = NULL
          /\ handles' = [handles EXCEPT ![pool] = "closed"]
          /\ closeCalls' = [closeCalls EXCEPT ![pool] = @ + 1]
     ELSE UNCHANGED <<pool, handles, closeCalls>>
  /\ UNCHANGED <<calls, callers, env>>

AnalyzeAfterGenerate(p) ==
  /\ Resumes(p, "analyzeAndQuery", "generateSQLQuery")
  /\ proc' = [proc EXCEPT ![p] =
       IF @.wait = "thrown" THEN AnalyzeCatch(@, @.res.val)
       ELSE EnterExecuteQuery(
              Stage([At(@, "executeQuery") EXCEPT !.squery = proc[p].res.val], "EXECUTE"),
              pool, handles, [kind |-> "generated", text |-> proc[p].res.val])]
  /\ UNCHANGED <<pool, handles, closeCalls, calls, callers, env>>

\* AnalyzeAfterExecute with a failed statement run again.
AnalyzeAfterExecuteRetry(p) ==
  /\ Resumes(p, "analyzeAndQuery", "executeQuery")
  /\ proc' = [proc EXCEPT ![p] =
       IF @.wait = "thrown"
       THEN EnterExecuteQuery(Stage(@, "EXECUTE"), pool, handles,
                              [kind |-> "generated", text |-> @.squery])
       ELSE EnterAssistant(Stage(At(@, "formatResponse"), "FORMAT"), "formatResponse")]
  /\ UNCHANGED <<pool, handles, closeCalls, calls, callers, env>>

\* AnalyzeAfterExecute with a failed statement taken for an empty result.
AnalyzeAfterExecuteSwallow(p) ==
  /\ Resumes(p, "analyzeAndQuery", "executeQuery")
  /\ proc' = [proc EXCEPT ![p] =
       EnterAssistant(Stage(At(@, "formatResponse"), "FORMAT"), "formatResponse")]
  /\ UNCHANGED <<pool, handles, closeCalls, calls, callers, env>>

AnalyzeAfterExecute(p) ==
  /\ Resumes(p, "analyzeAndQuery", "executeQuery")
  /\ proc' = [proc EXCEPT ![p] =
       IF @.wait = "thrown" THEN AnalyzeCatch(@, @.res.val)
       ELSE EnterAssistant(Stage(At(@, "formatResponse"), "FORMAT"), "formatResponse")]
  /\ UNCHANGED <<pool, handles, closeCalls, calls, callers, env>>

AnalyzeAfterFormat(p) ==
  /\ Resumes(p, "analyzeAndQuery", "formatResponse")
  /\ proc' = [proc EXCEPT ![p] =
       IF @.wait = "thrown" THEN AnalyzeCatch(@, @.res.val)
       ELSE Deliver(Pop(Stage(@, "DONE")), "ret", @.res.val)]
  /\ UNCHANGED <<pool, handles, closeCalls, calls, callers, env>>

(* -------------------------- top-level calls --------------------------- *)

MayCall(p, op) ==
  /\ op \in callers[p]
  /\ proc[p].op = "idle"
  /\ calls < MaxCalls

\* Process p starts a call: what it remembered of its last call is gone,
\* but for how that call ended.
Fresh(p, op) ==
  [IdleProc EXCEPT !.op = op, !.budget = env.rowCap, !.had = pool,
                   !.prev = [op |-> proc[p].outcome.op,
                             status |-> proc[p].outcome.status]]

CallConnect(p) ==
  /\ MayCall(p, "connect")
  /\ calls' = calls + 1
  /\ proc' = [proc EXCEPT ![p] = EnterConnect(Fresh(p, "connect"), pool)]
  /\ UNCHANGED <<pool, handles, closeCalls, callers, env>>

\* SQLSchemaInspector.disconnect, also through SQLAnalyzer.disconnect.
CallDisconnect(p) ==
  /\ MayCall(p, "disconnect")
  /\ calls' = calls + 1
  /\ IF DisconnectFinds(pool)
     THEN /\ handles' = [handles EXCEPT ![pool] = IF @ = "closed" THEN @ ELSE "closing"]
          /\ closeCalls' = [closeCalls EXCEPT ![pool] = @ + 1]
          /\ proc' = [proc EXCEPT ![p] =
               [Push(Fresh(p, "disconnect"), Frame("disconnect", "close"))
                  EXCEPT !.wait = "io", !.closing = pool]]
     ELSE /\ proc' = [proc EXCEPT ![p] = Deliver(Fresh(p, "disconnect"), "ret", <<>>)]
          /\ UNCHANGED <<handles, closeCalls>>
  /\ UNCHANGED <<pool, callers, env>>

CallExecuteQuery(p) ==
  /\ MayCall(p, "executeQuery")
  /\ calls' = calls + 1
  /\ proc' = [proc EXCEPT ![p] =
       EnterExecuteQuery(Fresh(p, "executeQuery"), pool, handles,
                         [kind |-> "user", text |-> <<"Q">>])]
  /\ UNCHANGED <<pool, handles, closeCalls, callers, env>>

CallInspectSchema(p) ==
  /\ MayCall(p, "inspectSchema")
  /\ calls' = calls + 1
  /\ proc' = [proc EXCEPT ![p] = EnterInspectSchema(Fresh(p, "inspectSchema"), pool)]
  /\ UNCHANGED <<pool, handles, closeCalls, callers, env>>

CallAnalyzeAndQuery(p) ==
  /\ MayCall(p, "analyzeAndQuery")
  /\ calls' = calls + 1
  /\ proc' = [proc EXCEPT ![p] =
       EnterInspectSchema(
         Stage(Push(Fresh(p, "analyzeAndQuery"), Frame("analyzeAndQuery", "inspectSchema")),
               "INTROSPECT"),
         pool)]
  /\ UNCHANGED <<pool, handles, closeCalls, callers, env>>

\* SQLQueryAssistant.generateSQLQuery called on the assistant alone.
CallGenerateSQLQuery(p) ==
  /\ MayCall(p, "generateSQLQuery")
  /\ calls' = calls + 1
  /\ proc' = [proc EXCEPT ![p] =
       EnterAssistant(Fresh(p, "generateSQLQuery"), "generateSQLQuery")]
  /\ UNCHANGED <<pool, handles, closeCalls, callers, env>>

\* SQLQueryAssistant.formatResponse called on the assistant alone.
CallFormatResponse(p) ==
  /\ MayCall(p, "formatResponse")
  /\ calls' = calls + 1
  /\ proc' = [proc EXCEPT ![p] =
       EnterAssistant(Fresh(p, "formatResponse"), "formatResponse")]
  /\ UNCHANGED <<pool, handles, closeCalls, callers, env>>

(* --------------------------- specifications --------------------------- *)

Operations == {"connect", "disconnect", "executeQuery", "inspectSchema",
               "analyzeAndQuery"}

Start(cs, e) ==
  /\ pool = NULL
  /\ handles = <<>>
  /\ closeCalls = <<>>
  /\ proc = [p \in Procs |-> IdleProc]
  /\ calls = 0
  /\ callers = cs
  /\ env = e

\* A database of one table without description, columns, keys or indexes.
OneTable == <<[TABLE_NAME |-> "T1", TABLE_DESCRIPTION |-> NullText]>>

\* A database of two tables.
TwoTables == OneTable \o <<[TABLE_NAME |-> "T2", TABLE_DESCRIPTION |-> "td"]>>

\* Two callers whose calls on the instance overlap, on the one-table
\* database: "a" calls any operation, "b" the connection operations and
\* executeQuery; a failing external call throws an Error.
Init ==
  Start([p \in Procs |-> IF p = "a" THEN Operations
                         ELSE {"connect", "disconnect", "executeQuery"}],
        [catalogs |-> {OneTable}, rowCap |-> 1, errors |-> {TRUE},
         contents |-> {}])

\* One caller: every call is awaited before the next is made.
InitSeq ==
  Start([p \in Procs |-> IF p = "a" THEN Operations ELSE {}],
        [catalogs |-> {<<>>, OneTable, TwoTables}, rowCap |-> SeqRows,
         errors |-> BOOLEAN, contents |-> {}])

\* One caller, any operation, a database of no table or of two.
InitLive ==
  Start([p \in Procs |-> IF p = "a" THEN Operations ELSE {}],
        [catalogs |-> {<<>>, TwoTables}, rowCap |-> LiveRows,
         errors |-> BOOLEAN, contents |-> {}])

\* One caller, one inspectSchema call, any catalog of up to MaxTables
\* tables and MaxRows rows; a failing external call throws an Error.
InitDoc ==
  Start([p \in Procs |-> IF p = "a" THEN {"inspectSchema"} ELSE {}],
        [catalogs |-> SeqsUpTo(TableRowSet, MaxTables), rowCap |-> MaxRows,
         errors |-> {TRUE}, contents |-> {}])

\* One caller of a SQLQueryAssistant alone; the model may answer
\* generateSQLQuery with any text of up to MaxLen characters, fenced.
InitAssistant ==
  Start([p \in Procs |-> IF p = "a" THEN AssistantOps ELSE {}],
        [catalogs |-> {}, rowCap |-> 0, errors |-> BOOLEAN,
         contents |-> SeqsUpTo(Chars, MaxLen)])

Next ==
  \E p \in Procs :
    \/ CallConnect(p)
    \/ CallDisconnect(p)
    \/ CallExecuteQuery(p)
    \/ CallInspectSchema(p)
    \/ CallAnalyzeAndQuery(p)
    \/ ConnectResume(p)
    \/ DisconnectResume(p)
    \/ ExecuteQueryAfterConnect(p)
    \/ ExecuteQueryResume(p)
    \/ InspectAfterConnect(p)
    \/ InspectAfterTables(p)
    \/ InspectAfterColumns(p)
    \/ InspectAfterPks(p)
    \/ InspectAfterFks(p)
    \/ InspectAfterIndexes(p)
    \/ GenerateResume(p)
    \/ FormatResume(p)
    \/ AnalyzeAfterInspect(p)
    \/ AnalyzeAfterGenerate(p)
    \/ AnalyzeAfterExecute(p)
    \/ AnalyzeAfterFormat(p)

\* The document builder alone: one inspectSchema call.
NextDoc ==
  \/ (calls = 0 /\ CallInspectSchema("a"))
  \/ ConnectResume("a")
  \/ ExecuteQueryResume("a")
  \/ InspectAfterConnect("a")
  \/ InspectAfterTables("a")
  \/ InspectAfterColumns("a")
  \/ InspectAfterPks("a")
  \/ InspectAfterFks("a")
  \/ InspectAfterIndexes("a")

\* The assistant alone.
NextAssistant ==
  \/ CallGenerateSQLQuery("a")
  \/ CallFormatResponse("a")
  \/ GenerateResume("a")
  \/ FormatResume("a")

Spec == Init /\ [][Next]_vars

SpecSeq == InitSeq /\ [][Next]_vars

SpecDoc == InitDoc /\ [][NextDoc]_vars

SpecAssistant == InitAssistant /\ [][NextAssistant]_vars

\* What process p does once its call is made: an external call of it
\* settles, or a continuation of it runs.
Step(p) ==
  \/ ConnectResume(p)
  \/ DisconnectResume(p)
  \/ ExecuteQueryAfterConnect(p)
  \/ ExecuteQueryResume(p)
  \/ InspectAfterConnect(p)
  \/ InspectAfterTables(p)
  \/ InspectAfterColumns(p)
  \/ InspectAfterPks(p)
  \/ InspectAfterFks(p)
  \/ InspectAfterIndexes(p)
  \/ GenerateResume(p)
  \/ FormatResume(p)
  \/ AnalyzeAfterInspect(p)
  \/ AnalyzeAfterGenerate(p)
  \/ AnalyzeAfterExecute(p)
  \/ AnalyzeAfterFormat(p)

\* One caller, every external call settles in the end and every
\* continuation that can run does.
SpecLive == InitLive /\ [][Next]_vars /\ \A p \in Procs : WF_vars(Step(p))


(* ------------------------------ claims -------------------------------- *)

Last(q) == q[Len(q)]

IsPrefix(a, b) == Len(a) <= Len(b) /\ \A i \in 1..Len(a) : a[i] = b[i]

StageOrder == <<"INTROSPECT", "GENERATE", "EXECUTE", "FORMAT", "DONE">>

\* The function a stage runs.
StageFunction(stage) ==
  CASE stage = "INTROSPECT" -> "inspectSchema"
    [] stage = "GENERATE"   -> "generateSQLQuery"
    [] stage = "EXECUTE"    -> "executeQuery"
    [] stage = "FORMAT"     -> "formatResponse"
    [] OTHER                -> "none"

\* Process p's last call was analyzeAndQuery and has settled so.
RunSettled(p, status) ==
  /\ proc[p].op = "idle"
  /\ proc[p].outcome.op = "analyzeAndQuery"
  /\ proc[p].outcome.status = status

\* C1: in every analyzeAndQuery call the stages entered are, in order, a
\* prefix of INTROSPECT, GENERATE, EXECUTE, FORMAT, DONE (none twice, none
\* out of order); while the call is in flight the only stage function with
\* a frame is the stage entered last (the earlier ones have resolved), the
\* EXECUTE stage runs the generated statement, and a call that resolves has
\* entered every stage.
C1_StagesInOrder ==
  \A p \in Procs :
    LET s == proc[p] IN
    /\ IsPrefix(s.stages, StageOrder)
    /\ s.op = "analyzeAndQuery" =>
         /\ s.stages # <<>>
         /\ Last(s.stages) # "DONE"
         /\ s.stack[1] = Frame("analyzeAndQuery", StageFunction(Last(s.stages)))
         /\ Len(s.stack) = 1 => s.wait \in {"ret", "thrown"}
         /\ Len(s.stack) >= 2 => s.stack[2].fn = StageFunction(Last(s.stages))
         /\ (Len(s.stack) >= 2 /\ Last(s.stages) = "EXECUTE") =>
              s.q = [kind |-> "generated", text |-> s.squery]
    /\ RunSettled(p, "resolved") => s.stages = StageOrder

\* C1's case: a call has gone through all the stages and resolved.
C1_Witness ==
  \E p \in Procs : RunSettled(p, "resolved") /\ proc[p].stages = StageOrder

\* C2: once a value has been thrown in a stage of analyzeAndQuery, no later
\* stage is entered, and the call rejects with an Error whose message starts
\* with "Failed to analyze and query: "; when the generated statement fails,
\* formatResponse is not called.
C2_FailureAborts ==
  \A p \in Procs :
    LET s == proc[p] IN
    (s.stages # <<>> /\ s.cause # <<>>) =>
      /\ Last(s.stages) = s.cause[1].stage
      /\ s.cause[1].stage = "EXECUTE" => \A i \in 1..Len(s.stages) : s.stages[i] # "FORMAT"
      /\ s.op = "idle" =>
           /\ s.outcome.status = "rejected"
           /\ s.outcome.val.isError
           /\ Head(s.outcome.val.message) = AnalyzePrefix

\* C2's case: the generated statement failed and the call has rejected.
C2_Witness ==
  \E p \in Procs :
    /\ RunSettled(p, "rejected")
    /\ proc[p].cause[1].site = "generated"
    /\ proc[p].cause[1].stage = "EXECUTE"

\* C3 as claimed: whatever was thrown, the message of the error
\* analyzeAndQuery rejects with contains the text of the value first thrown.
C3_OriginalMessageKept ==
  \A p \in Procs :
    RunSettled(p, "rejected") =>
      Contains(proc[p].outcome.val.message, proc[p].cause[1].value.message)

\* C3 as amended: when the value first thrown is an Error, the message of the
\* error analyzeAndQuery rejects with contains its message; when it is not
\* an Error, the message holds "Unknown error" in its place.
C3_ErrorMessageKept ==
  \A p \in Procs :
    RunSettled(p, "rejected") =>
      LET v == proc[p].cause[1].value
          m == proc[p].outcome.val.message
      IN  /\ proc[p].outcome.val.isError
          /\ v.isError => Contains(m, v.message)
          /\ ~v.isError => Last(m) = "Unknown error" /\ ~Contains(m, v.message)

\* C3's case: the connection could not be opened, the driver threw an
\* Error, and the call rejected with the message wrapped three times.
C3_Witness ==
  \E p \in Procs :
    /\ RunSettled(p, "rejected")
    /\ proc[p].cause[1].site = "connect"
    /\ proc[p].cause[1].value.isError
    /\ Len(proc[p].outcome.val.message) = 5

\* The handles opened and not yet closed.
LiveHandles == {h \in DOMAIN handles : handles[h] # "closed"}

\* C4: at most one handle is opened and not yet closed.
C4_AtMostOneLiveHandle == Cardinality(LiveHandles) <= 1


\* The operations that ensure a connection before anything else.
Connecting == {"connect", "executeQuery", "inspectSchema", "analyzeAndQuery"}

\* The operation of the call process p has in flight or made last.
OpOf(s) == IF s.op = "idle" THEN s.outcome.op ELSE s.op

\* The kinds of the queries a call has issued.
KindsIssued(s) == {s.issued[i].kind : i \in 1..Len(s.issued)}

\* C5: when calls follow one another, a call made while a handle is stored
\* starts no driver connect() and leaves the stored handle as it was; a call
\* starts at most one, and only while no handle is stored; every query of a
\* call (the catalog queries of INTROSPECT and the statement of EXECUTE) goes
\* out on the one stored handle, which is open; and every handle ever opened
\* is either closed or the stored one.
C5_ConnectIdempotent ==
  /\ Cardinality(LiveHandles) = (IF pool = NULL THEN 0 ELSE 1)
  /\ pool # NULL => pool = Len(handles)
  /\ \A p \in Procs :
       LET s == proc[p] IN
       /\ s.opens <= 1
       /\ (s.op # "idle" /\ Top(s) = Frame("connect", "open")) => pool = NULL
       /\ (OpOf(s) \in Connecting /\ s.had # NULL) => (s.opens = 0 /\ pool = s.had)
       /\ \A i \in 1..Len(s.issued) :
            s.issued[i].handle = pool /\ s.issued[i].hstate = "open"

\* C5's case: an analyzeAndQuery call made after another that resolved, with
\* no disconnect between them: it has resolved having opened nothing, its
\* catalog queries and its statement went out on the first call's handle.
C5_Witness ==
  \E p \in Procs :
    /\ RunSettled(p, "resolved")
    /\ proc[p].prev = [op |-> "analyzeAndQuery", status |-> "resolved"]
    /\ proc[p].opens = 0
    /\ {"tables", "generated"} \subseteq KindsIssued(proc[p])
    /\ Len(handles) = 1

\* Process p calls disconnect in this step.
DisconnectCalled(p) ==
  /\ callers[p] # {}
  /\ proc[p].op = "idle"
  /\ calls' = calls + 1
  /\ OpOf(proc'[p]) = "disconnect"

\* C6: close() is called at most once on a handle; a disconnect call that
\* finds a handle calls close() on it, and once it has resolved no handle is
\* stored and every handle is closed, so the queries of the next call go out
\* on a handle opened by that call; a disconnect call that finds no handle
\* resolves at once, having called close() on nothing and changed nothing,
\* and a disconnect call never rejects.
C6_DisconnectReleases ==
  /\ [](/\ \A h \in DOMAIN closeCalls : closeCalls[h] <= 1
        /\ \A p \in Procs :
             LET s == proc[p] IN
             /\ (s.op = "idle" /\ s.outcome.op = "disconnect") =>
                  /\ s.outcome.status = "resolved"
                  /\ pool = NULL
                  /\ LiveHandles = {}
             /\ (s.prev.op = "disconnect" /\ s.issued # <<>>) =>
                  /\ s.had = NULL
                  /\ s.opens = 1
                  /\ \A i \in 1..Len(s.issued) :
                       s.issued[i].handle = Len(handles) /\ s.issued[i].hstate = "open")
  /\ [][\A p \in Procs :
          DisconnectCalled(p) =>
            IF pool = NULL
            THEN /\ proc'[p].op = "idle"
                 /\ proc'[p].outcome.status = "resolved"
                 /\ UNCHANGED <<pool, handles, closeCalls>>
            ELSE /\ proc'[p].op = "disconnect"
                 /\ closeCalls'[pool] = closeCalls[pool] + 1
                 /\ \A h \in DOMAIN closeCalls : h # pool => closeCalls'[h] = closeCalls[h]]_vars

\* C6's case: a disconnect call that closed a handle, then a second
\* disconnect call, which has resolved with that handle closed once.
C6_Witness ==
  \E p \in Procs :
    /\ proc[p].op = "idle"
    /\ proc[p].outcome.op = "disconnect"
    /\ proc[p].prev.op = "disconnect"
    /\ Len(handles) = 1
    /\ closeCalls[1] = 1

\* The analyzeAndQuery call of process p follows one that rejected.
Retry(s) ==
  /\ OpOf(s) = "analyzeAndQuery"
  /\ s.prev = [op |-> "analyzeAndQuery", status |-> "rejected"]

\* C7: nothing is done again within a call: once a value has been thrown no
\* further query is issued and no driver connect() started, and no stage is
\* entered twice. A driver connect() that fails leaves no handle stored. An
\* analyzeAndQuery call made after one that rejected starts at INTROSPECT;
\* if a handle was stored when it was made, it opens none and its queries go
\* out on that handle; if none was, it starts one driver connect() and its
\* queries go out on the handle that one opened.
C7_RetryIsSafe ==
  \A p \in Procs :
    LET s == proc[p] IN
    /\ s.cause # <<>> =>
         /\ Len(s.issued) = s.cause[1].nIssued
         /\ s.cause[1].site = "connect" => (pool = NULL /\ s.opens = 1 /\ s.issued = <<>>)
         /\ s.cause[1].site # "connect" => s.opens <= 1
    /\ IsPrefix(s.stages, StageOrder)
    /\ Retry(s) =>
         /\ s.stages # <<>> /\ Head(s.stages) = "INTROSPECT"
         /\ s.had # NULL =>
              /\ s.opens = 0
              /\ \A i \in 1..Len(s.issued) :
                   s.issued[i].handle = s.had /\ s.issued[i].hstate = "open"
         /\ (s.had = NULL /\ s.issued # <<>>) =>
              /\ s.opens = 1
              /\ \A i \in 1..Len(s.issued) :
                   s.issued[i].handle = Len(handles) /\ s.issued[i].hstate = "open"

\* C7's case: the connection could not be opened and the call rejected; the
\* call made next opened a handle and has resolved.
C7_Witness ==
  \E p \in Procs :
    /\ RunSettled(p, "resolved")
    /\ Retry(proc[p])
    /\ proc[p].had = NULL
    /\ proc[p].opens = 1

\* The first value thrown in the call was thrown by a catalog query.
CatalogQueryFailed(s) == s.cause # <<>> /\ s.cause[1].site \in CatalogKinds

\* The call was inspectSchema and has settled.
InspectSettled(s) == s.op = "idle" /\ s.outcome.op = "inspectSchema"

\* C8 as claimed: after a catalog query has failed no further query is
\* issued, and inspectSchema rejects with an Error whose message is
\* "Failed to inspect database schema: " and then the text of what the
\* query threw, whatever it threw.
C8_QueryMessageCarried ==
  \A p \in Procs :
    LET s == proc[p] IN
    CatalogQueryFailed(s) =>
      /\ Len(s.issued) = s.cause[1].nIssued
      /\ InspectSettled(s) =>
           /\ s.outcome.status = "rejected"
           /\ s.outcome.val = Err(<<InspectPrefix>> \o s.cause[1].value.message)

\* C8 as amended: after a catalog query has failed no further query is
\* issued, and inspectSchema rejects (it returns no document) with an Error
\* whose message is "Failed to inspect database schema: " and then the
\* message of what the query threw if that is an Error, "Unknown error" if
\* it is not.
C8_CatalogFailureAborts ==
  \A p \in Procs :
    LET s == proc[p] IN
    CatalogQueryFailed(s) =>
      /\ Len(s.issued) = s.cause[1].nIssued
      /\ InspectSettled(s) =>
           /\ s.outcome.status = "rejected"
           /\ s.outcome.val =
                Err(<<InspectPrefix>> \o (IF s.cause[1].value.isError
                                          THEN s.cause[1].value.message
                                          ELSE <<"Unknown error">>))

\* C8's case: the foreign-key query of the second table failed, after the
\* first table's section had been built, and inspectSchema has rejected.
C8_Witness ==
  \E p \in Procs :
    /\ InspectSettled(proc[p])
    /\ CatalogQueryFailed(proc[p])
    /\ proc[p].cause[1].site = "fks"
    /\ proc[p].cause[1].nIssued = 8
    /\ proc[p].outcome.status = "rejected"

(* Reading a schema document back: its lines, its table sections, and the
   blocks of a section. *)

RECURSIVE SplitLines(_, _)
\* The lines of doc after the line begun as cur, without their "\n".
SplitLines(doc, cur) ==
  IF doc = <<>> THEN (IF cur = <<>> THEN <<>> ELSE <<cur>>)
  ELSE IF Head(doc) = "\n" THEN <<cur>> \o SplitLines(Tail(doc), <<>>)
  ELSE SplitLines(Tail(doc), Append(cur, Head(doc)))

Lines(doc) == SplitLines(doc, <<>>)

\* The lines a table section starts at.
SectionStarts(lines) ==
  {i \in 1..Len(lines) : lines[i] # <<>> /\ Head(lines[i]) = "Table: "}

\* The k-th table section: from its "Table: " line to the line before the
\* next one.
Section(lines, k) ==
  LET starts == SectionStarts(lines)
      from == CHOOSE i \in starts : Cardinality({j \in starts : j < i}) = k - 1
      later == {j \in starts : j > from}
      to == IF later = {} THEN Len(lines)
            ELSE (CHOOSE j \in later : \A j2 \in later : j <= j2) - 1
  IN  SubSeq(lines, from, to)

HasLine(section, line) == \E i \in 1..Len(section) : section[i] = line

\* The lines of the block under the given title line, up to the next empty
\* line; none if the section has no such title line.
Block(section, title) ==
  IF ~HasLine(section, <<title>>) THEN <<>>
  ELSE LET at == CHOOSE i \in 1..Len(section) : section[i] = <<title>>
           ends == {j \in (at + 1)..Len(section) : section[j] = <<>>}
           to == IF ends = {} THEN Len(section)
                 ELSE (CHOOSE j \in ends : \A j2 \in ends : j <= j2) - 1
       IN  SubSeq(section, at + 1, to)

\* inspectSchema has returned a document.
DocumentBuilt(s) ==
  /\ s.op = "idle"
  /\ s.outcome.op = "inspectSchema"
  /\ s.outcome.status = "resolved"

\* The tables the enumeration returned in the call.
TablesOf(s) == s.log[1].rows

\* The rows the query of the given kind returned for the k-th table.
CatalogRows(s, k, kind) ==
  LET e == s.log[1 + 4 * (k - 1) + (CASE kind = "columns" -> 1 [] kind = "pks" -> 2
                                      [] kind = "fks" -> 3 [] kind = "indexes" -> 4)]
  IN  IF e.kind = kind THEN e.rows ELSE <<[kind |-> e.kind]>>

\* An index line read back: its name, whether it carries the suffix, and the
\* column list after ": ".
IndexLineName(line) == line[2]
IndexLineUnique(line) == line[3] = " (UNIQUE)"
IndexLineList(line) == Drop(line, IF IndexLineUnique(line) THEN 4 ELSE 3)

\* A list "x, y, z" read back: its items, if ", " stands between them.
WellSeparated(list) ==
  /\ Len(list) % 2 = 1
  /\ \A i \in 1..Len(list) : (i % 2 = 0) => list[i] = ", "
ListItems(list) == [i \in 1..((Len(list) + 1) \div 2) |-> list[2 * i - 1]]

\* The rows of one index name, in the order the query returned them.
GroupRows(rows, name) == SelectSeq(rows, LAMBDA r : r.INDEX_NAME = name)
GroupColumns(rows, name) ==
  [i \in 1..Len(GroupRows(rows, name)) |-> GroupRows(rows, name)[i].COLUMN_NAME]
GroupNames(rows) == {rows[i].INDEX_NAME : i \in 1..Len(rows)}

\* C9: in the document inspectSchema returns, the Indexes block of every
\* table has one line per index name among the rows the index query
\* returned for that table; the line's column list is the columns of the
\* rows of that name in the order the query returned them, and the line
\* carries " (UNIQUE)" if and only if every row of that name has is_unique
\* true.
C9_IndexGroups ==
  \A p \in Procs :
    DocumentBuilt(proc[p]) =>
      LET s == proc[p]
          lines == Lines(s.outcome.val)
      IN  /\ Cardinality(SectionStarts(lines)) = Len(TablesOf(s))
          /\ \A k \in 1..Len(TablesOf(s)) :
               LET rows == CatalogRows(s, k, "indexes")
                   block == Block(Section(lines, k), "Indexes:")
               IN  /\ Len(block) = Cardinality(GroupNames(rows))
                   /\ {IndexLineName(block[i]) : i \in 1..Len(block)} = GroupNames(rows)
                   /\ \A i \in 1..Len(block) :
                        LET name == IndexLineName(block[i]) IN
                        /\ Head(block[i]) = "- "
                        /\ WellSeparated(IndexLineList(block[i]))
                        /\ ListItems(IndexLineList(block[i])) = GroupColumns(rows, name)
                        /\ IndexLineUnique(block[i]) <=>
                             \A j \in 1..Len(rows) :
                               rows[j].INDEX_NAME = name => rows[j].is_unique

\* C9's case: the index query returned a row of a unique index, a row of
\* another index that is not unique, then a second row of the first, and
\* the document was built.
C9_Witness ==
  \E p \in Procs :
    /\ DocumentBuilt(proc[p])
    /\ Len(TablesOf(proc[p])) = 1
    /\ CatalogRows(proc[p], 1, "indexes") =
         << [INDEX_NAME |-> "ix1", COLUMN_NAME |-> "c2", is_unique |-> TRUE],
            [INDEX_NAME |-> "ix2", COLUMN_NAME |-> "c1", is_unique |-> FALSE],
            [INDEX_NAME |-> "ix1", COLUMN_NAME |-> "c1", is_unique |-> TRUE] >>
    /\ HasLine(Lines(proc[p].outcome.val),
               <<"- ", "ix1", " (UNIQUE)", ": ", "c2", ", ", "c1">>)

\* Whether a line carries a "Description: " label anywhere.
IsDescriptionLine(line) == \E i \in 1..Len(line) : line[i] = "Description: "

\* How many elements of a sequence satisfy a test.
Count(seq, Test(_)) == Cardinality({i \in 1..Len(seq) : Test(seq[i])})

\* An optional block is there, with as many lines as n, if n > 0, and not
\* there at all if n = 0.
BlockIffRows(section, title, n) ==
  /\ HasLine(section, <<title>>) <=> n > 0
  /\ Len(Block(section, title)) = n
  /\ \A i \in 1..Len(Block(section, title)) : Head(Block(section, title)[i]) = "- "

\* Every optional block of every section is there if and only if its query
\* returned a row, and then has a line per row (per index name).
OptionalBlocksIffRows(s, lines) ==
  \A k \in 1..Len(TablesOf(s)) :
    LET section == Section(lines, k) IN
    /\ BlockIffRows(section, "Primary Keys:", Len(CatalogRows(s, k, "pks")))
    /\ BlockIffRows(section, "Foreign Keys:", Len(CatalogRows(s, k, "fks")))
    /\ BlockIffRows(section, "Indexes:",
                    Cardinality(GroupNames(CatalogRows(s, k, "indexes"))))

\* C10 as claimed: the section of a table without description has no line
\* with a "Description: " label, whatever its columns are, and every
\* optional block is there if and only if its query returned a row.
C10_NoDescriptionLine ==
  \A p \in Procs :
    DocumentBuilt(proc[p]) =>
      LET s == proc[p]
          lines == Lines(s.outcome.val)
      IN  /\ Cardinality(SectionStarts(lines)) = Len(TablesOf(s))
          /\ \A k \in 1..Len(TablesOf(s)) :
               ~Truthy(TablesOf(s)[k].TABLE_DESCRIPTION) =>
                 \A i \in 1..Len(Section(lines, k)) :
                   ~IsDescriptionLine(Section(lines, k)[i])
          /\ OptionalBlocksIffRows(s, lines)

\* C10 as amended: the section of a table has a line beginning with
\* "Description: " (its second line, with the description) if and only if
\* the table's description is neither null nor empty; the other lines with
\* a "Description: " label are the indented lines of the Columns block, one
\* for every column whose description is neither null nor empty; and every
\* optional block is there if and only if its query returned a row.
C10_NoTableDescriptionLine ==
  \A p \in Procs :
    DocumentBuilt(proc[p]) =>
      LET s == proc[p]
          lines == Lines(s.outcome.val)
      IN  /\ Cardinality(SectionStarts(lines)) = Len(TablesOf(s))
          /\ \A k \in 1..Len(TablesOf(s)) :
               LET section == Section(lines, k)
                   table == TablesOf(s)[k]
                   columns == Block(section, "Columns:")
               IN  /\ section[1] = <<"Table: ", table.TABLE_NAME>>
                   /\ IF Truthy(table.TABLE_DESCRIPTION)
                      THEN section[2] = <<"Description: ", table.TABLE_DESCRIPTION>>
                      ELSE \A i \in 1..Len(section) :
                             section[i] # <<>> => Head(section[i]) # "Description: "
                   /\ \A i \in 3..Len(section) :
                        IsDescriptionLine(section[i]) =>
                          /\ HasLine(columns, section[i])
                          /\ Len(section[i]) = 3 /\ section[i][1] = "  "
                   /\ Count(columns, IsDescriptionLine) =
                        Count(CatalogRows(s, k, "columns"),
                              LAMBDA c : Truthy(c.COLUMN_DESCRIPTION))
          /\ OptionalBlocksIffRows(s, lines)

\* C10's case: a table without description whose second column has one and
\* which has a primary key, no foreign key and no index: its section has
\* the column's indented description line and the Primary Keys block only.
C10_Witness ==
  \E p \in Procs :
    /\ DocumentBuilt(proc[p])
    /\ TablesOf(proc[p]) = <<[TABLE_NAME |-> "T1", TABLE_DESCRIPTION |-> NullText]>>
    /\ Len(CatalogRows(proc[p], 1, "columns")) = 2
    /\ Len(CatalogRows(proc[p], 1, "pks")) = 1
    /\ LET lines == Lines(proc[p].outcome.val) IN
       /\ HasLine(lines, <<"  ", "Description: ", "cd">>)
       /\ HasLine(lines, <<"Primary Keys:">>)
       /\ ~HasLine(lines, <<"Foreign Keys:">>)
       /\ ~HasLine(lines, <<"Indexes:">>)

\* C11: when the table enumeration returns no row, inspectSchema returns
\* the title and nothing else, and the enumeration is the only query the
\* call has issued.
C11_EmptyCatalog ==
  \A p \in Procs :
    (DocumentBuilt(proc[p]) /\ TablesOf(proc[p]) = <<>>) =>
      /\ proc[p].outcome.val = Title
      /\ SectionStarts(Lines(proc[p].outcome.val)) = {}
      /\ Len(proc[p].issued) = 1
      /\ proc[p].issued[1].kind = "tables"
      /\ Len(proc[p].log) = 1

\* C11's case: the enumeration returned no row and the document was built.
C11_Witness ==
  \E p \in Procs :
    /\ DocumentBuilt(proc[p])
    /\ TablesOf(proc[p]) = <<>>
    /\ proc[p].issued # <<>>

\* generateSQLQuery, called alone, was given a fenced text and has returned.
FencedReplyCleaned(s) ==
  /\ s.op = "idle"
  /\ s.outcome.op = "generateSQLQuery"
  /\ s.outcome.status = "resolved"
  /\ s.reply # <<>>
  /\ s.reply[1].fenced # <<>>

\* The text begins, after at most two backquotes, with the letters sql.
TagFollows(c) ==
  \E k \in 0..2 :
    /\ Len(c) >= k + 3
    /\ \A i \in 1..k : c[i] = BQ
    /\ SubSeq(c, k + 1, k + 3) = <<"s", "q", "l">>

\* An opening fence without tag, with no line break after it, in front of
\* such a text: the fence and the text's first letters read as a tagged fence.
ReadsAsTag(style, c) == style.tag = "none" /\ ~style.openNl /\ TagFollows(c)

\* C12 as claimed: whatever the text and however it is fenced, what
\* generateSQLQuery returns for the fenced text is cleanQuery of the text
\* itself.
C12_FenceRoundTrip ==
  \A p \in Procs :
    FencedReplyCleaned(proc[p]) =>
      proc[p].outcome.val = cleanQuery(proc[p].reply[1].fenced[1].content)

\* C12 as amended: what generateSQLQuery returns for a fenced text is
\* cleanQuery of the text itself when the opening fence carries the tag sql
\* in lower case, and when it carries no tag and either is followed by a
\* line break or the text does not begin (after at most two backquotes)
\* with the letters sql. A tag SQL in capitals is not removed: the result
\* is cleanQuery of the tag, the line break if any, and the text, which
\* differs. After a fence without tag and without line break, the letters
\* sql the text begins with are removed with the fence, and the result
\* differs.
C12_TaggedFenceRoundTrip ==
  \A p \in Procs :
    FencedReplyCleaned(proc[p]) =>
      LET f == proc[p].reply[1].fenced[1]
          val == proc[p].outcome.val
      IN  CASE f.style.tag = "SQL" ->
                 /\ val = cleanQuery(<<"S", "Q", "L">>
                                     \o (IF f.style.openNl THEN <<"\n">> ELSE <<>>)
                                     \o f.content)
                 /\ val # cleanQuery(f.content)
            [] ReadsAsTag(f.style, f.content) -> val # cleanQuery(f.content)
            [] OTHER -> val = cleanQuery(f.content)

\* C12's case: the model returned the fence tagged sql, a line break, a
\* text of two lines, a line break and the closing fence, and
\* generateSQLQuery returned the text.
C12_Witness ==
  \E p \in Procs :
    /\ FencedReplyCleaned(proc[p])
    /\ proc[p].reply[1].fenced[1] =
         [content |-> <<"X", "\n", "X">>,
          style |-> [tag |-> "sql", openNl |-> TRUE, closeNl |-> TRUE]]
    /\ proc[p].outcome.val = <<"X", "\n", "X">>

\* C13: when the completion request of formatResponse has resolved,
\* formatResponse resolves: with the first completion's content as it is,
\* and with the empty text when there is no first completion or its
\* content is null or empty.
C13_FormatNeverThrows ==
  \A p \in Procs :
    LET s == proc[p] IN
    (s.op = "idle" /\ s.outcome.op = "formatResponse" /\ s.reply # <<>>) =>
      LET choices == s.reply[1].response.choices IN
      /\ s.outcome.status = "resolved"
      /\ s.outcome.val = (IF choices = <<>> \/ choices[1].content.isNull THEN <<>>
                          ELSE choices[1].content.chars)

\* The kinds of the four queries made for a table, in the order claimed.
PerTableKinds == <<"columns", "pks", "fks", "indexes">>

\* A query of the call is in flight.
QueryInFlight(s) ==
  /\ s.op # "idle"
  /\ Top(s) = Frame("executeQuery", "query")
  /\ s.wait = "io"

\* C14: in an inspectSchema call, every query issued but the last has
\* resolved, and the last is either in flight, resolved or the one that
\* failed; the first query is the table enumeration and the i-th after it
\* is, for the tables in the order enumerated, the columns, primary-key,
\* foreign-key and index query of a table, the four of one table before any
\* of the next; a call that returns a document for N tables has issued
\* 1 + 4N queries.
C14_QueriesInOrder ==
  \A p \in Procs :
    LET s == proc[p] IN
    OpOf(s) = "inspectSchema" =>
      /\ Len(s.issued) = Len(s.log) + (IF QueryInFlight(s) THEN 1 ELSE 0)
                                    + (IF CatalogQueryFailed(s) THEN 1 ELSE 0)
      /\ ~(QueryInFlight(s) /\ CatalogQueryFailed(s))
      /\ \A i \in 1..Len(s.issued) :
           IF i = 1 THEN s.issued[i].kind = "tables"
           ELSE LET k == ((i - 2) \div 4) + 1
                    j == ((i - 2) % 4) + 1
                IN  /\ k <= Len(TablesOf(s))
                    /\ s.issued[i].kind = PerTableKinds[j]
                    /\ Last(s.issued[i].text) = TablesOf(s)[k].TABLE_NAME
      /\ DocumentBuilt(s) => Len(s.issued) = 1 + 4 * Len(TablesOf(s))

\* C14's case: the enumeration returned T2 and then T1, and the document
\* was built with nine queries.
C14_Witness ==
  \E p \in Procs :
    /\ DocumentBuilt(proc[p])
    /\ Len(TablesOf(proc[p])) = 2
    /\ TablesOf(proc[p])[1].TABLE_NAME = "T2"
    /\ TablesOf(proc[p])[2].TABLE_NAME = "T1"
    /\ Len(proc[p].issued) = 9

\* The titles of the blocks after the header, in the order claimed.
BlockTitles == <<"Columns:", "Primary Keys:", "Foreign Keys:", "Indexes:">>

\* The lines of a section that are the given title.
TitleLines(section, title) == {i \in 1..Len(section) : section[i] = <<title>>}

\* C15: the document inspectSchema returns begins with the title and has
\* one section per row of the table enumeration, the k-th section being
\* that of the k-th row (whatever the names, equal names included); a
\* section begins with the "Table: " line, then the description line if the
\* table has a description, then the separator, then "Columns:"; each of
\* the titles Columns, Primary Keys, Foreign Keys, Indexes stands at most
\* once in a section, and those that are there stand in that order.
C15_SectionsInOrder ==
  \A p \in Procs :
    DocumentBuilt(proc[p]) =>
      LET s == proc[p]
          lines == Lines(s.outcome.val)
      IN  /\ IsPrefix(Title, s.outcome.val)
          /\ Cardinality(SectionStarts(lines)) = Len(TablesOf(s))
          /\ \A k \in 1..Len(TablesOf(s)) :
               LET section == Section(lines, k)
                   table == TablesOf(s)[k]
                   d == IF Truthy(table.TABLE_DESCRIPTION) THEN 1 ELSE 0
               IN  /\ section[1] = <<"Table: ", table.TABLE_NAME>>
                   /\ d = 1 => section[2] = <<"Description: ", table.TABLE_DESCRIPTION>>
                   /\ section[2 + d] = <<"----------------------------------------">>
                   /\ section[3 + d] = <<"Columns:">>
                   /\ \A a \in 1..4 :
                        /\ Cardinality(TitleLines(section, BlockTitles[a])) <= 1
                        /\ \A b \in (a + 1)..4 :
                             \A x \in TitleLines(section, BlockTitles[a]),
                                y \in TitleLines(section, BlockTitles[b]) : x < y

\* C15's case: the enumeration returned two rows of the same table name,
\* the second with a description, and the second table has foreign keys
\* and indexes: the document has the two sections in that order.
C15_Witness ==
  \E p \in Procs :
    /\ DocumentBuilt(proc[p])
    /\ TablesOf(proc[p]) = <<[TABLE_NAME |-> "T1", TABLE_DESCRIPTION |-> NullText],
                             [TABLE_NAME |-> "T1", TABLE_DESCRIPTION |-> "td"]>>
    /\ LET section == Section(Lines(proc[p].outcome.val), 2) IN
       /\ section[2] = <<"Description: ", "td">>
       /\ HasLine(section, <<"Foreign Keys:">>)
       /\ HasLine(section, <<"Indexes:">>)

\* The analyzeAndQuery call of process p is over: it has resolved, having
\* gone through every stage, or rejected with the error of its catch block.
RunOver(p) ==
  \/ RunSettled(p, "resolved") /\ proc[p].stages = StageOrder
  \/ /\ RunSettled(p, "rejected")
     /\ proc[p].outcome.val.isError
     /\ Head(proc[p].outcome.val.message) = AnalyzePrefix

\* C16: when every external call settles in the end, an analyzeAndQuery
\* call in flight is over in the end: resolved after the FORMAT stage, or
\* rejected with an Error "Failed to analyze and query: ...".
C16_RunTerminates ==
  \A p \in Procs : (proc[p].op = "analyzeAndQuery") ~> RunOver(p)

\* C16's case: a call went through the table loop for two tables and all
\* the stages, and is over.
C16_Witness ==
  \E p \in Procs :
    /\ RunOver(p)
    /\ proc[p].stages = StageOrder
    /\ Len(proc[p].issued) = 10

\* C17: every query goes out on a handle on which close() has not been
\* called, and this.pool!.request() is never evaluated with this.pool null.
C17_NoUseAfterRelease ==
  \A p \in Procs :
    /\ \A i \in 1..Len(proc[p].issued) : proc[p].issued[i].hstate = "open"
    /\ proc[p].cause # <<>> => proc[p].cause[1].value # NullPoolError

\* Every call is over.
Quiet == \A p \in Procs : proc[p].op = "idle"

\* C18: a handle opened and not yet closed is the one stored in this.pool;
\* and when no call is in flight, a disconnect call has resolved and no
\* handle is stored, every handle ever opened is closed.
C18_NoHandleLeak ==
  /\ LiveHandles \subseteq {pool}
  /\ (/\ Quiet
      /\ pool = NULL
      /\ \E p \in Procs : proc[p].outcome.op = "disconnect") => LiveHandles = {}

\* The stored handle is the one of before the call, if there was one, and
\* is open.
HandleKept(s) ==
  /\ pool # NULL
  /\ handles[pool] = "open"
  /\ s.had # NULL => pool = s.had

\* C19: an analyzeAndQuery call that has resolved, or has rejected for a
\* failure other than that of opening the connection, leaves a handle
\* stored, open, and the one of before the call if there was one; while the
\* call is in flight a handle once stored stays stored and open; and a step
\* clears this.pool, or changes the state of a handle, only in a disconnect
\* call.
C19_RunKeepsHandle ==
  /\ [](\A p \in Procs :
          LET s == proc[p] IN
          /\ RunSettled(p, "resolved") => HandleKept(s)
          /\ (RunSettled(p, "rejected") /\ s.cause[1].site # "connect") => HandleKept(s)
          /\ (s.op = "analyzeAndQuery" /\ (s.had # NULL \/ s.issued # <<>>)) => HandleKept(s))
  /\ [][(\/ pool # NULL /\ pool' # pool
         \/ \E h \in DOMAIN handles : handles'[h] # handles[h])
        => \E p \in Procs : proc[p].op = "disconnect" \/ proc'[p].op = "disconnect"]_vars

\* C19's case: a handle was stored, the next call was analyzeAndQuery and
\* rejected because generateSQLQuery failed: the handle is still stored.
C19_Witness ==
  \E p \in Procs :
    /\ RunSettled(p, "rejected")
    /\ proc[p].cause[1].stage = "GENERATE"
    /\ proc[p].had = 1
    /\ pool = 1
    /\ handles[1] = "open"

=============================================================================
